---- MODULE Spec2Model ----
(***************************************************************************)
(* Skill-signal extraction, aggregation and scoring (skill_profiles.py)    *)
(* and the skill-set matchers built on it (opportunity_matching.py).       *)
(*                                                                         *)
(* A Python str is modelled as the sequence of its code points, so that    *)
(* lower(), strip(), split(), the \b word boundaries of the regular        *)
(* expressions and the ordering of strings used by sorted() are computed   *)
(* character by character.  A float that the code rounds to two decimals   *)
(* is modelled by its number of hundredths (0.63 is 63).                   *)
(***************************************************************************)
EXTENDS Integers, Sequences, FiniteSets, TLC

(***************************************************************************)
(* str                                                                     *)
(***************************************************************************)

\* str.isspace() on one ASCII character: \t \n \v \f \r and the space.
isspace(c) == c \in {9, 10, 11, 12, 13, 32}

\* A regular-expression word character \w (ASCII): digit, letter, underscore.
isword(c) == c \in (48 .. 57) \cup (65 .. 90) \cup (97 .. 122) \cup {95}

\* str.lower() on one ASCII character: A..Z become a..z, everything else is kept.
lower_char(c) == IF c \in 65 .. 90 THEN c + 32 ELSE c

\* str.lower()
lower(s) == [i \in 1 .. Len(s) |-> lower_char(s[i])]

RECURSIVE lstrip(_)
lstrip(s) == IF s /= <<>> /\ isspace(s[1]) THEN lstrip(Tail(s)) ELSE s

RECURSIVE rstrip(_)
rstrip(s) ==
    IF s /= <<>> /\ isspace(s[Len(s)]) THEN rstrip(SubSeq(s, 1, Len(s) - 1)) ELSE s

\* str.strip()
strip(s) == rstrip(lstrip(s))

\* str.replace("\n", " ")
replace_newlines(s) == [i \in 1 .. Len(s) |-> IF s[i] = 10 THEN 32 ELSE s[i]]

\* a < b on two str: lexicographic by code point, a proper prefix being smaller.
RECURSIVE str_lt(_, _)
str_lt(a, b) ==
    IF b = <<>> THEN FALSE
    ELSE IF a = <<>> THEN TRUE
    ELSE IF a[1] /= b[1] THEN a[1] < b[1]
    ELSE str_lt(Tail(a), Tail(b))

\* sorted(S) of a set of str: ascending.
RECURSIVE sorted_strs(_)
sorted_strs(S) ==
    IF S = {} THEN <<>>
    ELSE LET least == CHOOSE x \in S : \A y \in S : y = x \/ str_lt(x, y)
         IN <<least>> \o sorted_strs(S \ {least})

\* The elements of a sequence, as a set.
Range(seq) == {seq[i] : i \in 1 .. Len(seq)}

(***************************************************************************)
(* skills.py (not part of the sources at hand): the normalizer and the     *)
(* lexicon of explicit skill terms, modelled from the specification.       *)
(***************************************************************************)

\* Runs of whitespace inside a string become one space.
RECURSIVE collapse_whitespace(_)
collapse_whitespace(s) ==
    IF s = <<>> THEN <<>>
    ELSE IF isspace(s[1]) THEN <<32>> \o collapse_whitespace(lstrip(s))
    ELSE <<s[1]>> \o collapse_whitespace(Tail(s))

\* normalize_skill(name): case-insensitive, trimmed, internal whitespace collapsed.
normalize_skill(name) == collapse_whitespace(strip(lower(name)))

\* COMMON_SKILLS, in iteration order: the framework's terms python, docker, sql
\* and leadership, and one term the framework does not list (security).
COMMON_SKILLS ==
    << <<112, 121, 116, 104, 111, 110>>,                     \* python
       <<100, 111, 99, 107, 101, 114>>,                      \* docker
       <<115, 113, 108>>,                                    \* sql
       <<108, 101, 97, 100, 101, 114, 115, 104, 105, 112>>,  \* leadership
       <<115, 101, 99, 117, 114, 105, 116, 121>> >>          \* security

(***************************************************************************)
(* skill_profiles.py: the lexicon tables                                   *)
(***************************************************************************)

FORMAL_SKILL_FRAMEWORK ==
  <<
    [category |-> "Technical Foundation", skills |-> <<
        <<112, 121, 116, 104, 111, 110>>,  \* python
        <<106, 97, 118, 97>>,  \* java
        <<106, 97, 118, 97, 115, 99, 114, 105, 112, 116>>,  \* javascript
        <<116, 121, 112, 101, 115, 99, 114, 105, 112, 116>>,  \* typescript
        <<99, 43, 43>>,  \* c++
        <<99, 35>>,  \* c#
        <<115, 113, 108>>,  \* sql
        <<99, 108, 111, 117, 100>>,  \* cloud
        <<97, 119, 115>>,  \* aws
        <<97, 122, 117, 114, 101>>,  \* azure
        <<103, 99, 112>>,  \* gcp
        <<100, 111, 99, 107, 101, 114>>,  \* docker
        <<107, 117, 98, 101, 114, 110, 101, 116, 101, 115>>,  \* kubernetes
        <<99, 105, 47, 99, 100>>,  \* ci/cd
        <<103, 105, 116>>  \* git
    >>],
    [category |-> "Data & AI", skills |-> <<
        <<100, 97, 116, 97, 32, 97, 110, 97, 108, 121, 115, 105, 115>>,  \* data analysis
        <<100, 97, 116, 97, 32, 115, 99, 105, 101, 110, 99, 101>>,  \* data science
        <<109, 97, 99, 104, 105, 110, 101, 32, 108, 101, 97, 114, 110, 105, 110, 103>>,  \* machine learning
        <<100, 101, 101, 112, 32, 108, 101, 97, 114, 110, 105, 110, 103>>,  \* deep learning
        <<99, 111, 109, 112, 117, 116, 101, 114, 32, 118, 105, 115, 105, 111, 110>>,  \* computer vision
        <<110, 108, 112>>,  \* nlp
        <<109, 108, 111, 112, 115>>,  \* mlops
        <<112, 97, 110, 100, 97, 115>>,  \* pandas
        <<110, 117, 109, 112, 121>>,  \* numpy
        <<116, 101, 110, 115, 111, 114, 102, 108, 111, 119>>,  \* tensorflow
        <<112, 121, 116, 111, 114, 99, 104>>,  \* pytorch
        <<120, 103, 98, 111, 111, 115, 116>>  \* xgboost
    >>],
    [category |-> "Product & Delivery", skills |-> <<
        <<112, 114, 111, 106, 101, 99, 116, 32, 109, 97, 110, 97, 103, 101, 109, 101, 110, 116>>,  \* project management
        <<97, 103, 105, 108, 101>>,  \* agile
        <<115, 99, 114, 117, 109>>,  \* scrum
        <<107, 97, 110, 98, 97, 110>>,  \* kanban
        <<112, 114, 111, 100, 117, 99, 116, 32, 109, 97, 110, 97, 103, 101, 109, 101, 110, 116>>,  \* product management
        <<115, 116, 97, 107, 101, 104, 111, 108, 100, 101, 114, 32, 109, 97, 110, 97, 103, 101, 109, 101, 110, 116>>,  \* stakeholder management
        <<114, 111, 97, 100, 109, 97, 112, 112, 105, 110, 103>>,  \* roadmapping
        <<116, 101, 115, 116, 105, 110, 103>>,  \* testing
        <<113, 97>>,  \* qa
        <<100, 101, 118, 111, 112, 115>>  \* devops
    >>],
    [category |-> "Leadership & Impact", skills |-> <<
        <<108, 101, 97, 100, 101, 114, 115, 104, 105, 112>>,  \* leadership
        <<109, 101, 110, 116, 111, 114, 115, 104, 105, 112>>,  \* mentorship
        <<99, 111, 109, 109, 117, 110, 105, 99, 97, 116, 105, 111, 110>>,  \* communication
        <<115, 116, 114, 97, 116, 101, 103, 105, 99, 32, 112, 108, 97, 110, 110, 105, 110, 103>>,  \* strategic planning
        <<112, 114, 111, 98, 108, 101, 109, 32, 115, 111, 108, 118, 105, 110, 103>>,  \* problem solving
        <<105, 110, 110, 111, 118, 97, 116, 105, 111, 110>>,  \* innovation
        <<99, 104, 97, 110, 103, 101, 32, 109, 97, 110, 97, 103, 101, 109, 101, 110, 116>>  \* change management
    >>]
  >>

\* FRAMEWORK_LOOKUP = {normalize_skill(skill): category for category, skills in
\* FORMAL_SKILL_FRAMEWORK.items() for skill in skills}: of two terms with one key,
\* the later one's category stays.
FRAMEWORK_LOOKUP ==
    LET key_of(c, i) == normalize_skill(FORMAL_SKILL_FRAMEWORK[c].skills[i])
        places == UNION {{<<c, i>> : i \in 1 .. Len(FORMAL_SKILL_FRAMEWORK[c].skills)} :
                            c \in 1 .. Len(FORMAL_SKILL_FRAMEWORK)}
        later(p, q) == p[1] > q[1] \/ (p[1] = q[1] /\ p[2] >= q[2])
    IN [key \in {key_of(p[1], p[2]) : p \in places} |->
           LET hits == {p \in places : key_of(p[1], p[2]) = key}
               last == CHOOSE p \in hits : \A q \in hits : later(p, q)
           IN FORMAL_SKILL_FRAMEWORK[last[1]].category]

\* FRAMEWORK_LOOKUP.get(key, default)
FRAMEWORK_LOOKUP_get(key, default) ==
    IF key \in DOMAIN FRAMEWORK_LOOKUP THEN FRAMEWORK_LOOKUP[key] ELSE default

\* Each pattern \bstem(opt)?\b is held as its literal stem and optional suffix (opt
\* is empty for a plain \bword\b).  The second pattern of "stakeholder management",
\* \baligned\b.*\bteam\b, is left out: no text of the model holds "aligned".
IMPLICIT_PATTERNS ==
  <<
    \* leadership: led, managed, head(ed)?, directed
    [skill |-> <<108, 101, 97, 100, 101, 114, 115, 104, 105, 112>>, patterns |-> <<
        [stem |-> <<108, 101, 100>>, opt |-> <<>>],
        [stem |-> <<109, 97, 110, 97, 103, 101, 100>>, opt |-> <<>>],
        [stem |-> <<104, 101, 97, 100>>, opt |-> <<101, 100>>],
        [stem |-> <<100, 105, 114, 101, 99, 116, 101, 100>>, opt |-> <<>>]
    >>],
    \* mentorship: mentored, coached, trained
    [skill |-> <<109, 101, 110, 116, 111, 114, 115, 104, 105, 112>>, patterns |-> <<
        [stem |-> <<109, 101, 110, 116, 111, 114, 101, 100>>, opt |-> <<>>],
        [stem |-> <<99, 111, 97, 99, 104, 101, 100>>, opt |-> <<>>],
        [stem |-> <<116, 114, 97, 105, 110, 101, 100>>, opt |-> <<>>]
    >>],
    \* stakeholder management: stakeholder(s)?
    [skill |-> <<115, 116, 97, 107, 101, 104, 111, 108, 100, 101, 114, 32, 109, 97, 110, 97, 103, 101, 109, 101, 110, 116>>, patterns |-> <<
        [stem |-> <<115, 116, 97, 107, 101, 104, 111, 108, 100, 101, 114>>, opt |-> <<115>>]
    >>],
    \* communication: presented, facilitated, workshop
    [skill |-> <<99, 111, 109, 109, 117, 110, 105, 99, 97, 116, 105, 111, 110>>, patterns |-> <<
        [stem |-> <<112, 114, 101, 115, 101, 110, 116, 101, 100>>, opt |-> <<>>],
        [stem |-> <<102, 97, 99, 105, 108, 105, 116, 97, 116, 101, 100>>, opt |-> <<>>],
        [stem |-> <<119, 111, 114, 107, 115, 104, 111, 112>>, opt |-> <<>>]
    >>],
    \* strategic planning: roadmap, strategy, vision
    [skill |-> <<115, 116, 114, 97, 116, 101, 103, 105, 99, 32, 112, 108, 97, 110, 110, 105, 110, 103>>, patterns |-> <<
        [stem |-> <<114, 111, 97, 100, 109, 97, 112>>, opt |-> <<>>],
        [stem |-> <<115, 116, 114, 97, 116, 101, 103, 121>>, opt |-> <<>>],
        [stem |-> <<118, 105, 115, 105, 111, 110>>, opt |-> <<>>]
    >>],
    \* problem solving: root cause, troubleshoot(ed)?, debugged
    [skill |-> <<112, 114, 111, 98, 108, 101, 109, 32, 115, 111, 108, 118, 105, 110, 103>>, patterns |-> <<
        [stem |-> <<114, 111, 111, 116, 32, 99, 97, 117, 115, 101>>, opt |-> <<>>],
        [stem |-> <<116, 114, 111, 117, 98, 108, 101, 115, 104, 111, 111, 116>>, opt |-> <<101, 100>>],
        [stem |-> <<100, 101, 98, 117, 103, 103, 101, 100>>, opt |-> <<>>]
    >>],
    \* continuous improvement: retrospective, continuous improvement, kaizen
    [skill |-> <<99, 111, 110, 116, 105, 110, 117, 111, 117, 115, 32, 105, 109, 112, 114, 111, 118, 101, 109, 101, 110, 116>>, patterns |-> <<
        [stem |-> <<114, 101, 116, 114, 111, 115, 112, 101, 99, 116, 105, 118, 101>>, opt |-> <<>>],
        [stem |-> <<99, 111, 110, 116, 105, 110, 117, 111, 117, 115, 32, 105, 109, 112, 114, 111, 118, 101, 109, 101, 110, 116>>, opt |-> <<>>],
        [stem |-> <<107, 97, 105, 122, 101, 110>>, opt |-> <<>>]
    >>],
    \* governance: audit(ed)?, compliance, risk
    [skill |-> <<103, 111, 118, 101, 114, 110, 97, 110, 99, 101>>, patterns |-> <<
        [stem |-> <<97, 117, 100, 105, 116>>, opt |-> <<101, 100>>],
        [stem |-> <<99, 111, 109, 112, 108, 105, 97, 110, 99, 101>>, opt |-> <<>>],
        [stem |-> <<114, 105, 115, 107>>, opt |-> <<>>]
    >>],
    \* innovation: prototype(d)?, experiment(s)?, hackathon
    [skill |-> <<105, 110, 110, 111, 118, 97, 116, 105, 111, 110>>, patterns |-> <<
        [stem |-> <<112, 114, 111, 116, 111, 116, 121, 112, 101>>, opt |-> <<100>>],
        [stem |-> <<101, 120, 112, 101, 114, 105, 109, 101, 110, 116>>, opt |-> <<115>>],
        [stem |-> <<104, 97, 99, 107, 97, 116, 104, 111, 110>>, opt |-> <<>>]
    >>]
  >>

IMPLICIT_CATEGORY ==
  <<
    [skill |-> <<108, 101, 97, 100, 101, 114, 115, 104, 105, 112>>, category |-> "Leadership & Impact"],
    [skill |-> <<109, 101, 110, 116, 111, 114, 115, 104, 105, 112>>, category |-> "Leadership & Impact"],
    [skill |-> <<115, 116, 97, 107, 101, 104, 111, 108, 100, 101, 114, 32, 109, 97, 110, 97, 103, 101, 109, 101, 110, 116>>, category |-> "Product & Delivery"],
    [skill |-> <<99, 111, 109, 109, 117, 110, 105, 99, 97, 116, 105, 111, 110>>, category |-> "Leadership & Impact"],
    [skill |-> <<115, 116, 114, 97, 116, 101, 103, 105, 99, 32, 112, 108, 97, 110, 110, 105, 110, 103>>, category |-> "Leadership & Impact"],
    [skill |-> <<112, 114, 111, 98, 108, 101, 109, 32, 115, 111, 108, 118, 105, 110, 103>>, category |-> "Technical Foundation"],
    [skill |-> <<99, 111, 110, 116, 105, 110, 117, 111, 117, 115, 32, 105, 109, 112, 114, 111, 118, 101, 109, 101, 110, 116>>, category |-> "Product & Delivery"],
    [skill |-> <<103, 111, 118, 101, 114, 110, 97, 110, 99, 101>>, category |-> "Product & Delivery"],
    [skill |-> <<105, 110, 110, 111, 118, 97, 116, 105, 111, 110>>, category |-> "Leadership & Impact"]
  >>

\* IMPLICIT_CATEGORY.get(skill, default)
IMPLICIT_CATEGORY_get(skill, default) ==
    LET hits == {i \in 1 .. Len(IMPLICIT_CATEGORY) : IMPLICIT_CATEGORY[i].skill = skill}
    IN IF hits = {} THEN default ELSE IMPLICIT_CATEGORY[CHOOSE i \in hits : TRUE].category

(***************************************************************************)
(* skill_profiles.py: occurrence detection                                 *)
(***************************************************************************)

\* The regular expression's \b at the gap before text[i] (i in 1 .. Len + 1):
\* exactly one of the two neighbours is a word character.
word_boundary(text, i) ==
    LET before == i > 1 /\ isword(text[i - 1])
        after  == i <= Len(text) /\ isword(text[i])
    IN before /= after

\* The literal lit, case-insensitively (re.IGNORECASE), at text[i ..].
literal_at(text, i, lit) ==
    /\ i + Len(lit) - 1 <= Len(text)
    /\ \A k \in 1 .. Len(lit) : lower_char(text[i + k - 1]) = lower_char(lit[k])

\* \blit\b matches at text[i ..].
word_at(text, i, lit) ==
    /\ word_boundary(text, i)
    /\ literal_at(text, i, lit)
    /\ word_boundary(text, i + Len(lit))

\* pattern.finditer(text) for \bskill\b from position i on: the non-overlapping
\* matches left to right, each as Python's (match.start(), match.end()).
RECURSIVE finditer_skill(_, _, _)
finditer_skill(text, skill, i) ==
    IF i > Len(text) THEN <<>>
    ELSE IF word_at(text, i, skill)
         THEN <<[start |-> i - 1, end |-> i - 1 + Len(skill)]>>
              \o finditer_skill(text, skill, i + Len(skill))
         ELSE finditer_skill(text, skill, i + 1)

match_skill_occurrences(text, skill) == finditer_skill(text, skill, 1)

\* The length \bstem(opt)?\b matches at text[i ..] (the optional group is greedy,
\* and given up when the closing \b fails after it), 0 when it does not match.
pattern_match_len(text, i, pattern) ==
    IF ~(word_boundary(text, i) /\ literal_at(text, i, pattern.stem)) THEN 0
    ELSE IF /\ literal_at(text, i + Len(pattern.stem), pattern.opt)
            /\ word_boundary(text, i + Len(pattern.stem) + Len(pattern.opt))
         THEN Len(pattern.stem) + Len(pattern.opt)
    ELSE IF word_boundary(text, i + Len(pattern.stem)) THEN Len(pattern.stem)
    ELSE 0

\* re.finditer(pattern, lowered, flags=re.IGNORECASE) from position i on.
RECURSIVE finditer_pattern(_, _, _)
finditer_pattern(text, pattern, i) ==
    IF i > Len(text) THEN <<>>
    ELSE LET n == pattern_match_len(text, i, pattern)
         IN IF n > 0
            THEN <<[start |-> i - 1, end |-> i - 1 + n]>>
                 \o finditer_pattern(text, pattern, i + n)
            ELSE finditer_pattern(text, pattern, i + 1)

Max(a, b) == IF a >= b THEN a ELSE b
Min(a, b) == IF a <= b THEN a ELSE b

\* The default of _snippet's window parameter, in characters.
window == 90

\* _snippet(text, start, end): text[left:right] with newlines made spaces, stripped.
snippet(text, start, end) ==
    LET left  == Max(0, start - window)
        right == Min(Len(text), end + window)
    IN strip(replace_newlines(SubSeq(text, left + 1, right)))

\* The occurrence events of build_skill_profile's explicit loop over one source:
\* for each skill of COMMON_SKILLS from the k-th on, one event per occurrence.
RECURSIVE explicit_events(_, _)
explicit_events(source, k) ==
    IF k > Len(COMMON_SKILLS) THEN <<>>
    ELSE LET skill    == COMMON_SKILLS[k]
             found    == match_skill_occurrences(source.text, skill)
             category == FRAMEWORK_LOOKUP_get(normalize_skill(skill), "Technical Foundation")
         IN [j \in 1 .. Len(found) |->
                [name        |-> skill,
                 category    |-> category,
                 signal_type |-> "explicit",
                 source      |-> source.name,
                 snippet     |-> snippet(source.text, found[j].start, found[j].end)]]
            \o explicit_events(source, k + 1)

\* The events of one implicit skill: for each of its patterns from the p-th on, one
\* event per match in the lowered text; the snippet is cut from the original text.
RECURSIVE pattern_events(_, _, _)
pattern_events(source, entry, p) ==
    IF p > Len(entry.patterns) THEN <<>>
    ELSE LET lowered  == lower(source.text)
             found    == finditer_pattern(lowered, entry.patterns[p], 1)
             category == IMPLICIT_CATEGORY_get(entry.skill, "Leadership & Impact")
         IN [j \in 1 .. Len(found) |->
                [name        |-> entry.skill,
                 category    |-> category,
                 signal_type |-> "implicit",
                 source      |-> source.name,
                 snippet     |-> snippet(source.text, found[j].start, found[j].end)]]
            \o pattern_events(source, entry, p + 1)

\* build_skill_profile's implicit loop over one source, from the k-th skill on.
RECURSIVE implicit_events(_, _)
implicit_events(source, k) ==
    IF k > Len(IMPLICIT_PATTERNS) THEN <<>>
    ELSE pattern_events(source, IMPLICIT_PATTERNS[k], 1) \o implicit_events(source, k + 1)

\* One source's events in the order the loop body registers them: every explicit
\* event, then every implicit one.
source_events(source) == explicit_events(source, 1) \o implicit_events(source, 1)

\* The events of a whole batch, source after source.
RECURSIVE batch_events(_)
batch_events(srcs) ==
    IF srcs = <<>> THEN <<>> ELSE source_events(srcs[1]) \o batch_events(Tail(srcs))

\* Every document is kept, blank or not.
filter_sources_keep_all(srcs) == srcs

\* sources = [src for src in sources if src and src.text.strip()]
RECURSIVE filter_sources(_)
filter_sources(srcs) ==
    IF srcs = <<>> THEN <<>>
    ELSE IF strip(srcs[1].text) /= <<>> THEN <<srcs[1]>> \o filter_sources(Tail(srcs))
    ELSE filter_sources(Tail(srcs))

(***************************************************************************)
(* skill_profiles.py: the registry                                         *)
(***************************************************************************)

\* The registry is a dict: here the sequence of its entries in insertion order,
\* each entry carrying its key.

\* The index of key's entry, 0 when the registry has none.
registry_index(registry, key) ==
    IF \E i \in 1 .. Len(registry) : registry[i].key = key
    THEN CHOOSE i \in 1 .. Len(registry) : registry[i].key = key
    ELSE 0

\* A fresh entry for every event, whether the key has one or not.
setdefault_always_fresh(registry, key, ev) ==
    Append(registry,
           [key      |-> key,
            name     |-> ev.name,
            category |-> IF ev.category = "" THEN "Uncategorized" ELSE ev.category,
            type     |-> ev.signal_type,
            sources  |-> {},
            snippets |-> <<>>,
            mentions |-> 0])

\* An entry takes the name, category and kind of the latest event for its key.
setdefault_last_wins(registry, key, ev) ==
    LET i == registry_index(registry, key)
        category == IF ev.category = "" THEN "Uncategorized" ELSE ev.category
    IN IF i /= 0
       THEN [registry EXCEPT ![i] = [@ EXCEPT !.name = ev.name,
                                              !.category = category,
                                              !.type = ev.signal_type]]
       ELSE Append(registry,
                   [key      |-> key,
                    name     |-> ev.name,
                    category |-> category,
                    type     |-> ev.signal_type,
                    sources  |-> {},
                    snippets |-> <<>>,
                    mentions |-> 0])

\* registry.setdefault(key, {...}): the registry with an entry for key, a fresh one
\* from the event when there was none.
setdefault(registry, key, ev) ==
    IF registry_index(registry, key) /= 0 THEN registry
    ELSE Append(registry,
                [key      |-> key,
                 name     |-> ev.name,
                 category |-> IF ev.category = "" THEN "Uncategorized" ELSE ev.category,
                 type     |-> ev.signal_type,
                 sources  |-> {},
                 snippets |-> <<>>,
                 mentions |-> 0])

\* What _register_signal appends to entry["snippets"]: the evidence when the
\* snippet is truthy, nothing otherwise.
appended_snippets(snippets, ev) ==
    IF ev.snippet /= <<>>
    THEN Append(snippets, [source |-> ev.source, snippet |-> ev.snippet])
    ELSE snippets

\* The entry's sources are those of the latest event only.
register_signal_latest_source(registry, ev) ==
    LET key == normalize_skill(ev.name)
        reg == setdefault(registry, key, ev)
        i   == registry_index(reg, key)
    IN [reg EXCEPT ![i] = [@ EXCEPT !.mentions = @ + 1,
                                    !.sources  = {ev.source},
                                    !.snippets = appended_snippets(@, ev)]]

\* _register_signal(registry, name, category, signal_type, source, snippet)
register_signal(registry, ev) ==
    LET key == normalize_skill(ev.name)
        reg == setdefault(registry, key, ev)
        i   == registry_index(reg, key)
    IN [reg EXCEPT ![i] = [@ EXCEPT !.mentions = @ + 1,
                                    !.sources  = @ \cup {ev.source},
                                    !.snippets = appended_snippets(@, ev)]]

\* The registry after registering every event of a sequence, in order.
RECURSIVE register_all(_, _)
register_all(registry, events) ==
    IF events = <<>> THEN registry
    ELSE register_all(register_signal(registry, events[1]), Tail(events))

(***************************************************************************)
(* skill_profiles.py: scoring and finalization                             *)
(***************************************************************************)

\* 0.12 * math.log1p(m) for m = 1 .. 17, in millionths (truncated); from m = 18
\* on the product exceeds the cap 0.35.
LOG1P_BONUS ==
    <<83177, 131833, 166355, 193132, 215011, 233509, 249532, 263666, 276310,
      287747, 298188, 307793, 316686, 324966, 332710, 339985, 346844>>

\* mention_bonus = min(0.35, 0.12 * math.log1p(entry["mentions"])), in millionths.
mention_bonus(mentions) ==
    IF mentions <= 0 THEN 0
    ELSE IF mentions > Len(LOG1P_BONUS) THEN 350000
    ELSE Min(350000, LOG1P_BONUS[mentions])

\* source_bonus = min(0.2, 0.08 * max(0, len(entry["sources"]) - 1)), in millionths.
source_bonus(n_sources) == Min(200000, 80000 * Max(0, n_sources - 1))

\* base = 0.55 if entry["type"] == "explicit" else 0.45, in millionths.
base_confidence(type) == IF type = "explicit" THEN 550000 ELSE 450000

\* The sum without its ceiling of 0.98.
capped_confidence_no_ceiling(type, mentions, n_sources) ==
    base_confidence(type) + mention_bonus(mentions) + source_bonus(n_sources)

\* min(0.98, base + mention_bonus + source_bonus), in millionths.
capped_confidence(type, mentions, n_sources) ==
    Min(980000, base_confidence(type) + mention_bonus(mentions) + source_bonus(n_sources))

\* round(x, 2) of x given in millionths, as hundredths (no value the formula yields
\* lies half-way between two hundredths).
round2_millionths(x) == (x + 5000) \div 10000

confidence(type, mentions, n_sources) ==
    round2_millionths(capped_confidence(type, mentions, n_sources))

\* Every snippet, without the slice.
evidence_unsliced(snippets) == snippets

\* entry["snippets"][:3]
evidence(snippets) == SubSeq(snippets, 1, Min(3, Len(snippets)))

\* The SkillSignal _finalize_registry builds from one entry.
skill_signal(entry) ==
    [name        |-> entry.name,
     category    |-> entry.category,
     signal_type |-> entry.type,
     confidence  |-> confidence(entry.type, entry.mentions, Cardinality(entry.sources)),
     sources     |-> sorted_strs(entry.sources),
     evidence    |-> evidence(entry.snippets)]

\* Confidence descending, ties by name ascending.
sort_key_gt_name_ascending(a, b) ==
    \/ a.confidence > b.confidence
    \/ a.confidence = b.confidence /\ str_lt(a.name, b.name)

\* (a.confidence, a.name) > (b.confidence, b.name), as Python compares tuples.
sort_key_gt(a, b) ==
    \/ a.confidence > b.confidence
    \/ a.confidence = b.confidence /\ str_lt(b.name, a.name)

\* sorted(..., reverse=True) is stable: x goes behind every element whose key is
\* greater than or equal to its own.
RECURSIVE insert_descending(_, _)
insert_descending(sorted, x) ==
    IF sorted = <<>> THEN <<x>>
    ELSE IF sort_key_gt(x, sorted[1]) THEN <<x>> \o sorted
    ELSE <<sorted[1]>> \o insert_descending(Tail(sorted), x)

RECURSIVE sorted_descending(_, _)
sorted_descending(done, rest) ==
    IF rest = <<>> THEN done
    ELSE sorted_descending(insert_descending(done, rest[1]), Tail(rest))

\* _finalize_registry(registry)
finalize_registry(registry) ==
    sorted_descending(<<>>, [i \in 1 .. Len(registry) |-> skill_signal(registry[i])])

(***************************************************************************)
(* skill_profiles.py: statistics and summary                               *)
(***************************************************************************)

\* round(num / den, 2) as hundredths, for den > 0.  A quotient half-way between
\* two hundredths needs den to be a multiple of 8; the ratios taken here (a
\* framework category's targets, a job's skills) have no such denominator.
round2_ratio(num, den) == (200 * num + den) \div (2 * den)

\* round(total / n, 2) for a total of hundredths: the nearest hundredth, and both
\* neighbours when the quotient lies half-way (the double that total / n yields
\* then falls on either side of the tie).
round2_average(total, n) ==
    {h \in 0 .. 100 : 2 * h * n - n <= 2 * total /\ 2 * total <= 2 * h * n + n}

RECURSIVE sum_confidence(_)
sum_confidence(signals) ==
    IF signals = <<>> THEN 0 ELSE signals[1].confidence + sum_confidence(Tail(signals))

\* The number of signals of one signal_type.
count_type(signals, t) ==
    Cardinality({i \in 1 .. Len(signals) : signals[i].signal_type = t})

\* normalized_targets = {normalize_skill(skill) for skill in skills}, for each
\* category of the framework by its position.
normalized_targets ==
    [c \in 1 .. Len(FORMAL_SKILL_FRAMEWORK) |->
        {normalize_skill(FORMAL_SKILL_FRAMEWORK[c].skills[i]) :
            i \in 1 .. Len(FORMAL_SKILL_FRAMEWORK[c].skills)}]

\* covered = {normalize_skill(s.name) for s in signals if s.category == category}
covered_skills(signals, category) ==
    {normalize_skill(signals[i].name) :
        i \in {j \in 1 .. Len(signals) : signals[j].category = category}}

\* framework_alignment[category] of _profile_stats, for the c-th category.
framework_alignment_entry(signals, c) ==
    LET targets == normalized_targets[c]
        covered == covered_skills(signals, FORMAL_SKILL_FRAMEWORK[c].category)
    IN [covered      |-> sorted_strs(covered \cap targets),
        coverage     |-> IF targets /= {}
                         THEN round2_ratio(Cardinality(covered \cap targets),
                                           Cardinality(targets))
                         ELSE 0,
        target_total |-> Cardinality(targets)]

\* The framework's categories.
Categories ==
    {FORMAL_SKILL_FRAMEWORK[c].category : c \in 1 .. Len(FORMAL_SKILL_FRAMEWORK)}

\* The position of a category in the framework.
category_index(category) ==
    CHOOSE c \in 1 .. Len(FORMAL_SKILL_FRAMEWORK) :
        FORMAL_SKILL_FRAMEWORK[c].category = category

framework_alignment(signals) ==
    [category \in Categories |->
        framework_alignment_entry(signals, category_index(category))]

\* Counter(values): each value that occurs, with its number of occurrences.
Counter(values) ==
    [v \in Range(values) |-> Cardinality({i \in 1 .. Len(values) : values[i] = v})]

\* _profile_stats(signals, sources), for one value avg of the rounded average.
profile_stats(signals, srcs, avg) ==
    [source_count          |-> Len(srcs),
     explicit_count        |-> count_type(signals, "explicit"),
     implicit_count        |-> count_type(signals, "implicit"),
     category_distribution |-> Counter([i \in 1 .. Len(signals) |-> signals[i].category]),
     framework_alignment   |-> framework_alignment(signals),
     avg_confidence        |-> avg,
     sources_visibility    |-> Counter([i \in 1 .. Len(srcs) |-> srcs[i].visibility]),
     top_sources           |-> [i \in 1 .. Min(3, Len(srcs)) |-> srcs[i].name]]

\* avg_conf = round(sum(...) / len(signals), 2) if signals else 0
avg_confidence_values(signals) ==
    IF signals = <<>> THEN {0} ELSE round2_average(sum_confidence(signals), Len(signals))

\* str.title() (ASCII): a letter is upper-cased after a non-letter, lower-cased
\* after a letter.
isalpha(c) == c \in (65 .. 90) \cup (97 .. 122)
title(s) ==
    [i \in 1 .. Len(s) |->
        IF ~isalpha(s[i]) THEN s[i]
        ELSE IF i > 1 /\ isalpha(s[i - 1])
             THEN (IF s[i] \in 65 .. 90 THEN s[i] + 32 ELSE s[i])
             ELSE (IF s[i] \in 97 .. 122 THEN s[i] - 32 ELSE s[i])]

\* summarize_profile(signals, stats): the values the sentence is formatted from.
summarize_profile(signals, stats) ==
    IF signals = <<>> THEN [detected |-> FALSE]
    ELSE [detected       |-> TRUE,
          explicit_count |-> stats.explicit_count,
          implicit_count |-> stats.implicit_count,
          source_count   |-> stats.source_count,
          top            |-> [i \in 1 .. Min(5, Len(signals)) |-> title(signals[i].name)],
          categories     |-> stats.category_distribution,
          avg_confidence |-> stats.avg_confidence]

\* The profiles build_skill_profile can return once every event of the filtered
\* sources is in the registry.
profiles_of(registry, srcs) ==
    LET signals == finalize_registry(registry)
        profile_for(avg) ==
            LET stats == profile_stats(signals, srcs, avg)
            IN [signals |-> signals,
                stats   |-> stats,
                summary |-> summarize_profile(signals, stats)]
    IN {profile_for(avg) : avg \in avg_confidence_values(signals)}

\* build_skill_profile(sources), run to completion.
build_skill_profile(batch) ==
    LET srcs == filter_sources(batch)
    IN profiles_of(register_all(<<>>, batch_events(srcs)), srcs)

\* as_skill_set(signals): the mapping from normalized name to signal (a later
\* signal replaces an earlier one under the same key).
as_skill_set(signals) ==
    [key \in {normalize_skill(signals[i].name) : i \in 1 .. Len(signals)} |->
        LET hits == {i \in 1 .. Len(signals) : normalize_skill(signals[i].name) = key}
        IN signals[CHOOSE i \in hits : \A j \in hits : j <= i]]

(***************************************************************************)
(* Inputs                                                                  *)
(***************************************************************************)

\* The longest batch of documents handed to one build call.
MaxDocs == 2

\* The documents a batch is drawn from (data_sources.SourceDocument: name, text,
\* visibility).
DocPool ==
    << \* cv.txt: "Led Python python"
       [name |-> <<99, 118, 46, 116, 120, 116>>,
        text |-> <<76, 101, 100, 32, 80, 121, 116, 104, 111, 110, 32,
                   112, 121, 116, 104, 111, 110>>,
        visibility |-> "private"],
       \* bio.txt: "leadership PYTHON\npython"
       [name |-> <<98, 105, 111, 46, 116, 120, 116>>,
        text |-> <<108, 101, 97, 100, 101, 114, 115, 104, 105, 112, 32,
                   80, 89, 84, 72, 79, 78, 10, 112, 121, 116, 104, 111, 110>>,
        visibility |-> "public"],
       \* notes.md: "debugged docker"
       [name |-> <<110, 111, 116, 101, 115, 46, 109, 100>>,
        text |-> <<100, 101, 98, 117, 103, 103, 101, 100, 32,
                   100, 111, 99, 107, 101, 114>>,
        visibility |-> "private"],
       \* blank.txt: "  \n"
       [name |-> <<98, 108, 97, 110, 107, 46, 116, 120, 116>>,
        text |-> <<32, 32, 10>>,
        visibility |-> "private"],
       \* review.txt: "Managed stakeholders, headed Security"
       [name |-> <<114, 101, 118, 105, 101, 119, 46, 116, 120, 116>>,
        text |-> <<77, 97, 110, 97, 103, 101, 100, 32, 115, 116, 97, 107, 101, 104,
                   111, 108, 100, 101, 114, 115, 44, 32, 104, 101, 97, 100, 101, 100,
                   32, 83, 101, 99, 117, 114, 105, 116, 121>>,
        visibility |-> "public"] >>

\* The sequences of n distinct indices into the pool.
RECURSIVE index_seqs(_)
index_seqs(n) ==
    IF n = 0 THEN {<<>>}
    ELSE {Append(s, i) : s \in index_seqs(n - 1), i \in 1 .. Len(DocPool)}

\* Every batch of at most MaxDocs distinct documents of the pool, in every order.
Batches ==
    {[i \in 1 .. Len(s) |-> DocPool[s[i]]] :
        s \in {t \in UNION {index_seqs(n) : n \in 0 .. MaxDocs} :
                 \A i, j \in 1 .. Len(t) : i /= j => t[i] /= t[j]}}

(***************************************************************************)
(* opportunity_matching.py                                                 *)
(***************************************************************************)

\* learning_resources.py (not part of the sources at hand): the skills the static
\* mapping has a resource for (python, sql).
LEARNING_RESOURCES ==
    { <<112, 121, 116, 104, 111, 110>>, <<115, 113, 108>> }

\* get_learning_resources(gaps): the gaps the mapping knows, each with its URL.
get_learning_resources(gaps) ==
    [name \in {g \in Range(gaps) : normalize_skill(g) \in LEARNING_RESOURCES} |-> "url"]

\* The keys of as_skill_set(signals) in dict order: by first insertion.
RECURSIVE skill_set_keys(_)
skill_set_keys(signals) ==
    IF signals = <<>> THEN <<>>
    ELSE LET init == skill_set_keys(SubSeq(signals, 1, Len(signals) - 1))
             key  == normalize_skill(signals[Len(signals)].name)
         IN IF key \in Range(init) THEN init ELSE Append(init, key)

\* Every job skill, whether the candidate has it or not.
matched_names_unfiltered(job_signals, candidate_signals) ==
    LET job_skillset == as_skill_set(job_signals)
        keys == skill_set_keys(job_signals)
    IN [i \in 1 .. Len(keys) |-> job_skillset[keys[i]].name]

\* [job_skillset[key].name for key in job_skillset.keys() if key in candidate_skillset]
matched_names(job_signals, candidate_signals) ==
    LET job_skillset == as_skill_set(job_signals)
        keys == SelectSeq(skill_set_keys(job_signals),
                          LAMBDA key : key \in DOMAIN as_skill_set(candidate_signals))
    IN [i \in 1 .. Len(keys) |-> job_skillset[keys[i]].name]

\* [job_skillset[key].name for key in job_skillset.keys() if key not in candidate_skillset]
gap_names(job_signals, candidate_signals) ==
    LET job_skillset == as_skill_set(job_signals)
        keys == SelectSeq(skill_set_keys(job_signals),
                          LAMBDA key : key \notin DOMAIN as_skill_set(candidate_signals))
    IN [i \in 1 .. Len(keys) |-> job_skillset[keys[i]].name]

\* The ratio cut to two decimals instead of rounded.
match_coverage_truncated(matched, job_skillset) ==
    IF DOMAIN job_skillset /= {}
    THEN (100 * Len(matched)) \div Cardinality(DOMAIN job_skillset)
    ELSE 0

\* coverage = len(matched) / len(job_skillset) if job_skillset else 0, rounded to
\* two decimals, as hundredths.
match_coverage(matched, job_skillset) ==
    IF DOMAIN job_skillset /= {}
    THEN round2_ratio(Len(matched), Cardinality(DOMAIN job_skillset))
    ELSE 0

\* SourceDocument(name="Job Posting", kind="job", text=job_text.strip(), ...)
job_source(job_text) ==
    [name |-> <<74, 111, 98, 32, 80, 111, 115, 116, 105, 110, 103>>,
     text |-> strip(job_text),
     visibility |-> "public"]

\* The JobMatchResult for one job profile (lines 33-64).
job_match_result(skill_profile, job_profile) ==
    LET job_skillset == as_skill_set(job_profile.signals)
        matched == matched_names(job_profile.signals, skill_profile.signals)
        gaps    == gap_names(job_profile.signals, skill_profile.signals)
    IN IF DOMAIN job_skillset = {}
       THEN [is_none |-> FALSE, coverage |-> 0, matched |-> <<>>, gaps |-> <<>>,
             recommendations |-> get_learning_resources(<<>>),
             raw_job_profile |-> job_profile]
       ELSE [is_none |-> FALSE,
             coverage |-> match_coverage(matched, job_skillset),
             matched |-> sorted_strs(Range(matched)),
             gaps |-> sorted_strs(Range(gaps)),
             recommendations |-> get_learning_resources(gaps),
             raw_job_profile |-> job_profile]

\* The return value None.
None == [is_none |-> TRUE]

\* The test without the strip: only the empty string is blank.
is_blank_unstripped(text) == text = <<>>

\* if not job_text or not job_text.strip()
is_blank(text) == text = <<>> \/ strip(text) = <<>>

\* match_profile_to_job(skill_profile, job_text): what it can return.
match_profile_to_job(skill_profile, job_text) ==
    IF is_blank(job_text) THEN {None}
    ELSE {job_match_result(skill_profile, job_profile) :
            job_profile \in build_skill_profile(<<job_source(job_text)>>)}

\* str.splitlines(): a line ends at \n, \r, \r\n, \v or \f; what follows the last
\* line end is a line only when it is not empty.
is_line_end(c) == c \in {10, 11, 12, 13}

RECURSIVE splitlines_from(_, _)
splitlines_from(s, line) ==
    IF s = <<>> THEN (IF line = <<>> THEN <<>> ELSE <<line>>)
    ELSE IF s[1] = 13 /\ Len(s) > 1 /\ s[2] = 10
         THEN <<line>> \o splitlines_from(SubSeq(s, 3, Len(s)), <<>>)
    ELSE IF is_line_end(s[1]) THEN <<line>> \o splitlines_from(Tail(s), <<>>)
    ELSE splitlines_from(Tail(s), Append(line, s[1]))

splitlines(s) == splitlines_from(s, <<>>)

\* The index of the first sep in s, 0 when there is none.
find_char(s, sep) ==
    IF \E i \in 1 .. Len(s) : s[i] = sep
    THEN CHOOSE i \in 1 .. Len(s) : s[i] = sep /\ \A j \in 1 .. i - 1 : s[j] /= sep
    ELSE 0

\* str.split(sep) for a one-character separator: every piece, empty ones included.
RECURSIVE split(_, _)
split(s, sep) ==
    LET i == find_char(s, sep)
    IN IF i = 0 THEN <<s>>
       ELSE <<SubSeq(s, 1, i - 1)>> \o split(SubSeq(s, i + 1, Len(s)), sep)

\* Every piece stripped, the blank ones kept.
stripped_skills_unfiltered(skills_blob) ==
    LET pieces == split(skills_blob, 44)
    IN [i \in 1 .. Len(pieces) |-> strip(pieces[i])]

\* [skill.strip() for skill in skills_blob.split(",") if skill.strip()]
stripped_skills(skills_blob) ==
    LET pieces == SelectSeq(split(skills_blob, 44), LAMBDA piece : strip(piece) /= <<>>)
    IN [i \in 1 .. Len(pieces) |-> strip(pieces[i])]

\* The loop of parse_team_profiles over the lines that are left.
RECURSIVE parse_lines(_)
parse_lines(lines) ==
    IF lines = <<>> THEN <<>>
    ELSE LET line   == lines[1]
             colon  == find_char(line, 58)
             skills == stripped_skills(SubSeq(line, colon + 1, Len(line)))
         IN IF colon = 0 THEN parse_lines(Tail(lines))
            ELSE IF skills = <<>> THEN parse_lines(Tail(lines))
            ELSE <<[name |-> strip(SubSeq(line, 1, colon - 1)), skills |-> skills]>>
                 \o parse_lines(Tail(lines))

\* parse_team_profiles(raw_text)
parse_team_profiles(raw_text) ==
    IF raw_text = <<>> THEN <<>> ELSE parse_lines(splitlines(raw_text))

\* The team's skills as the members spell them, not normalized.
team_skillset_unnormalized(team_profiles) ==
    UNION {Range(team_profiles[i].skills) : i \in 1 .. Len(team_profiles)}

\* team_skillset: normalize_skill(skill) of every skill of every member, as a set.
team_skillset(team_profiles) ==
    UNION {{normalize_skill(skill) : skill \in Range(team_profiles[i].skills)} :
              i \in 1 .. Len(team_profiles)}

\* compare_against_team(skill_profile, team_profiles).  The names of distinct
\* candidate keys are distinct signals' names, so sorting the list of names is
\* sorting their set unless two keys share a display name, which normalize_skill
\* (a function of the name) rules out.
compare_against_team(skill_profile, team_profiles) ==
    LET candidate_skillset == as_skill_set(skill_profile.signals)
        candidate_keys     == DOMAIN candidate_skillset
        team               == team_skillset(team_profiles)
        unique_strengths   == {candidate_skillset[key].name : key \in candidate_keys \ team}
        missing_in_team    == team \ candidate_keys
    IN [team_size           |-> Len(team_profiles),
        team_skill_coverage |-> Cardinality(team),
        unique_strengths    |-> sorted_strs(unique_strengths),
        team_gaps           |-> sorted_strs(missing_in_team)]

(***************************************************************************)
(* Inputs of the matchers                                                  *)
(***************************************************************************)

\* The job texts handed to match_profile_to_job.
JobTexts ==
    { <<>>,                                                       \* ""
      <<32, 32>>,                                                 \* "  "
      <<104, 101, 108, 108, 111, 32, 116, 101, 97, 109>>,         \* "hello team"
      \* "python docker leadership sql"
      <<112, 121, 116, 104, 111, 110, 32, 100, 111, 99, 107, 101, 114, 32,
        108, 101, 97, 100, 101, 114, 115, 104, 105, 112, 32, 115, 113, 108>>,
      \* "python docker leadership"
      <<112, 121, 116, 104, 111, 110, 32, 100, 111, 99, 107, 101, 114, 32,
        108, 101, 97, 100, 101, 114, 115, 104, 105, 112>>,
      <<76, 101, 100, 59, 32, 83, 69, 67, 85, 82, 73, 84, 89>> }  \* "Led; SECURITY"

\* The most lines a team inventory has.
MaxLines == 3

\* The lines a team inventory is made of.
TeamLines ==
    { \* "Asha: cloud, security"
      <<65, 115, 104, 97, 58, 32, 99, 108, 111, 117, 100, 44, 32,
        115, 101, 99, 117, 114, 105, 116, 121>>,
      <<66, 97, 100, 76, 105, 110, 101>>,                             \* "BadLine"
      <<75, 111, 102, 105, 58, 32, 112, 121, 116, 104, 111, 110>>,    \* "Kofi: python"
      <<76, 101, 101, 58, 32, 44, 32>>,                               \* "Lee: , "
      <<32, 58, 32, 83, 81, 76, 32, 44, 44, 120, 58, 121, 32>> }      \* " : SQL ,,x:y "

\* The line ends an inventory's lines are joined with: "\n" and "\r\n".
LineEnds == { <<10>>, <<13, 10>> }

\* sep.join(lines)
RECURSIVE join(_, _)
join(lines, sep) ==
    IF lines = <<>> THEN <<>>
    ELSE IF Len(lines) = 1 THEN lines[1]
    ELSE lines[1] \o sep \o join(Tail(lines), sep)

\* Every sequence of at most n team lines.
RECURSIVE line_seqs(_)
line_seqs(n) ==
    IF n = 0 THEN {<<>>}
    ELSE line_seqs(n - 1)
         \cup {Append(s, l) : s \in {t \in line_seqs(n - 1) : Len(t) = n - 1}, l \in TeamLines}

\* The most lines of an inventory a candidate is compared against.
MaxMembers == 2

\* The lines such an inventory is made of: members that share skills with one
\* another and with the candidates, in different spellings.
CompareLines ==
    { \* "Asha: cloud, security"
      <<65, 115, 104, 97, 58, 32, 99, 108, 111, 117, 100, 44, 32,
        115, 101, 99, 117, 114, 105, 116, 121>>,
      <<75, 111, 102, 105, 58, 32, 112, 121, 116, 104, 111, 110>>,    \* "Kofi: python"
      \* "Mo: Python , SECURITY"
      <<77, 111, 58, 32, 80, 121, 116, 104, 111, 110, 32, 44, 32,
        83, 69, 67, 85, 82, 73, 84, 89>>,
      <<32, 58, 32, 83, 81, 76, 32, 44, 44, 120, 58, 121, 32>> }      \* " : SQL ,,x:y "

\* Every sequence of at most n of those lines.
RECURSIVE compare_line_seqs(_)
compare_line_seqs(n) ==
    IF n = 0 THEN {<<>>}
    ELSE compare_line_seqs(n - 1)
         \cup {Append(s, l) : s \in {t \in compare_line_seqs(n - 1) : Len(t) = n - 1},
                              l \in CompareLines}

\* The most mentions and the most distinct sources of one skill in a scoring run.
MaxMentions == 20
MaxSources == 4

\* word, n times, separated by spaces.
RECURSIVE repeated(_, _)
repeated(word, n) == IF n <= 1 THEN word ELSE word \o <<32>> \o repeated(word, n - 1)

\* A batch of n_sources documents "a", "b", ... that mention one skill `mentions`
\* times in all: the first document holds every mention the others do not, each
\* of the others holds one.  "python" is an explicit term, "led" a pattern of the
\* implicit skill leadership.
ScoreBatch(type, mentions, n_sources) ==
    LET word == IF type = "explicit" THEN <<112, 121, 116, 104, 111, 110>>
                ELSE <<108, 101, 100>>
    IN [i \in 1 .. n_sources |->
           [name |-> <<96 + i>>,
            text |-> repeated(word, IF i = 1 THEN mentions - n_sources + 1 ELSE 1),
            visibility |-> "private"]]

ScoreBatches ==
    UNION {{ScoreBatch(type, m, n) : type \in {"explicit", "implicit"},
                                     n \in 1 .. Min(m, MaxSources)} :
              m \in 1 .. MaxMentions}

(***************************************************************************)
(* State                                                                   *)
(***************************************************************************)

\* The build calls that may be in progress at the same time.
Calls == 1 .. 2

VARIABLES
    pc,            \* per call: "idle", "registering" (the loops run) or "done"
    batch,         \* per call: the documents handed to build_skill_profile
    sources,       \* per call: the local list of non-blank sources
    events,        \* per call: the occurrence events of the sources, in loop order
    queue,         \* per call: those the loops have yet to register
    registry,      \* per call: the local registry
    profile,       \* per call: the returned {"signals", "stats", "summary"}
    job_text,      \* the job text of the last match_profile_to_job call
    match_result,  \* what that call returned
    team_lines,    \* the lines of the last team inventory parsed
    raw_text,      \* that inventory as one string
    team_profiles, \* what parse_team_profiles returned for it
    team_report    \* what compare_against_team returned for the profile and the team

build_vars == <<pc, batch, sources, events, queue, registry, profile>>
match_vars == <<job_text, match_result>>
team_vars == <<team_lines, raw_text, team_profiles, team_report>>
vars == <<pc, batch, sources, events, queue, registry, profile, job_text, match_result,
          team_lines, raw_text, team_profiles, team_report>>

NoProfile == [signals |-> <<>>, returned |-> FALSE]
NotCalled == [called |-> FALSE]
NotCompared == [compared |-> FALSE]

Init ==
    /\ pc = [c \in Calls |-> "idle"]
    /\ batch = [c \in Calls |-> <<>>]
    /\ sources = [c \in Calls |-> <<>>]
    /\ events = [c \in Calls |-> <<>>]
    /\ queue = [c \in Calls |-> <<>>]
    /\ registry = [c \in Calls |-> <<>>]
    /\ profile = [c \in Calls |-> NoProfile]
    /\ job_text = <<>>
    /\ match_result = NotCalled
    /\ team_lines = <<>>
    /\ raw_text = <<>>
    /\ team_profiles = <<>>
    /\ team_report = NotCompared

\* One registry of the module that every call uses: that of the first call.
module_registry(c) == CHOOSE d \in Calls : \A e \in Calls : d <= e

\* The registry call c reads and writes: `registry` is a local variable of
\* build_skill_profile, bound to a new dict in every call (line 176).
local_registry(c) == c

\* build_skill_profile(b) is called: the sources are filtered and the registry is
\* created empty (lines 175-176); the loops' events are those of the kept sources.
Submit(c, b) ==
    /\ pc[c] = "idle"
    /\ pc' = [pc EXCEPT ![c] = "registering"]
    /\ batch' = [batch EXCEPT ![c] = b]
    /\ sources' = [sources EXCEPT ![c] = filter_sources(b)]
    /\ events' = [events EXCEPT ![c] = batch_events(sources'[c])]
    /\ queue' = [queue EXCEPT ![c] = events'[c]]
    /\ registry' = [registry EXCEPT ![local_registry(c)] = <<>>]
    /\ UNCHANGED <<profile, match_vars, team_vars>>

\* One call of _register_signal from the loops (lines 184 and 192).
Register(c) ==
    /\ pc[c] = "registering"
    /\ queue[c] /= <<>>
    /\ registry' = [registry EXCEPT ![local_registry(c)] = register_signal(@, Head(queue[c]))]
    /\ queue' = [queue EXCEPT ![c] = Tail(@)]
    /\ UNCHANGED <<pc, batch, sources, events, profile, match_vars, team_vars>>

\* The loops are over: finalize, compute the statistics and the summary, return
\* (lines 201-204).
Finalize(c) ==
    /\ pc[c] = "registering"
    /\ queue[c] = <<>>
    /\ \E p \in profiles_of(registry[local_registry(c)], sources[c]) :
           profile' = [profile EXCEPT ![c] = p]
    /\ pc' = [pc EXCEPT ![c] = "done"]
    /\ UNCHANGED <<batch, sources, events, queue, registry, match_vars, team_vars>>

\* match_profile_to_job(profile, text) on the profile the first call returned (the
\* application offers the match once a profile exists).  A match reads the profile
\* and the text only and keeps nothing, so a run makes one: a second match reaches
\* no state the first does not.
MatchProfileToJob(text) ==
    /\ pc[1] = "done"
    /\ ~match_result.called
    /\ job_text' = text
    /\ \E result \in match_profile_to_job(profile[1], text) :
           match_result' = [called |-> TRUE] @@ result
    /\ UNCHANGED <<build_vars, team_vars>>

\* parse_team_profiles(sep.join(lines)).  The function reads its argument only, so
\* a run parses one inventory.
ParseTeamProfiles(lines, sep) ==
    /\ team_lines = <<>>
    /\ team_lines' = lines
    /\ raw_text' = join(lines, sep)
    /\ team_profiles' = parse_team_profiles(join(lines, sep))
    /\ UNCHANGED <<build_vars, match_vars, team_report>>

\* compare_against_team(profile, team_profiles) on the profile the first call
\* returned and the team last parsed.  The function reads its arguments only, so a
\* run compares once.
CompareAgainstTeam ==
    /\ pc[1] = "done"
    /\ ~team_report.compared
    /\ team_report' = [compared |-> TRUE] @@ compare_against_team(profile[1], team_profiles)
    /\ UNCHANGED <<build_vars, match_vars, team_lines, raw_text, team_profiles>>

Build(c) ==
    \/ \E b \in Batches : Submit(c, b)
    \/ Register(c)
    \/ Finalize(c)

\* One profile is built and matched against job texts.
Next ==
    \/ Build(1)
    \/ \E text \in JobTexts : MatchProfileToJob(text)

Spec == Init /\ [][Next]_vars

\* Team inventories are parsed.
NextTeam == \E lines \in line_seqs(MaxLines), sep \in LineEnds : ParseTeamProfiles(lines, sep)

SpecTeam == Init /\ [][NextTeam]_vars

\* One profile is built, then a team inventory is parsed and the profile compared
\* against it (the application offers the comparison once a profile exists).
NextCompare ==
    \/ Build(1)
    \/ /\ pc[1] = "done"
       /\ ~team_report.compared
       /\ \E lines \in compare_line_seqs(MaxMembers) : ParseTeamProfiles(lines, <<10>>)
    \/ CompareAgainstTeam

SpecCompare == Init /\ [][NextCompare]_vars

\* One skill is mentioned any number of times in any number of sources and scored.
NextScore ==
    \/ \E b \in ScoreBatches : Submit(1, b)
    \/ Register(1)
    \/ Finalize(1)

SpecScore == Init /\ [][NextScore]_vars

\* The batches two calls in progress at the same time are given: documents that
\* share skills (python, leadership) in both orders, and documents that do not.
ParBatches ==
    { <<DocPool[1], DocPool[2]>>, <<DocPool[2], DocPool[1]>>,
      <<DocPool[3]>>, <<DocPool[5], DocPool[4]>> }

\* Two build_skill_profile calls run at the same time, the steps of their loops
\* interleaved in every way.
NextPar ==
    \E c \in Calls :
        \/ \E b \in ParBatches : Submit(c, b)
        \/ Register(c)
        \/ Finalize(c)

SpecPar == Init /\ [][NextPar]_vars

(***************************************************************************)
(* Properties                                                              *)
(***************************************************************************)

\* The events a call's loops have registered so far.
registered(c) == SubSeq(events[c], 1, Len(events[c]) - Len(queue[c]))

\* The entry of a signal in a registry, by the signal's normalized name.
entry_of(reg, signal) == reg[registry_index(reg, normalize_skill(signal.name))]

\* What the merge property compares of a build: per skill its kind, category,
\* confidence and mention count.
merge_view(reg) ==
    {[key         |-> reg[i].key,
      signal_type |-> reg[i].type,
      category    |-> reg[i].category,
      confidence  |-> skill_signal(reg[i]).confidence,
      mentions    |-> reg[i].mentions] : i \in 1 .. Len(reg)}

\* C1: merge commutativity.  A build of the two documents [A, B] yields, for every
\* skill, the same signal kind, category, confidence and mention count as a build
\* of [B, A].
C1_MergeCommutativity ==
    (pc[1] = "done" /\ Len(batch[1]) = 2) =>
        LET swapped == <<batch[1][2], batch[1][1]>>
            other   == register_all(<<>>, batch_events(filter_sources(swapped)))
        IN /\ merge_view(registry[1]) = merge_view(other)
           /\ {[s EXCEPT !.evidence = <<>>] : s \in Range(profile[1].signals)}
              = {[s EXCEPT !.evidence = <<>>] : s \in Range(finalize_registry(other))}

\* The occurrences of a signal's skill among the events of a call, in the order
\* the loops register them, each as the evidence it leaves.
occurrences(c, signal) ==
    LET evs == SelectSeq(events[c],
                         LAMBDA ev : normalize_skill(ev.name) = normalize_skill(signal.name))
    IN [i \in 1 .. Len(evs) |-> [source |-> evs[i].source, snippet |-> evs[i].snippet]]

\* C2: confidence bounds.  Every signal a build returns has 0 < confidence <= 0.98,
\* whatever its kind, mention count and source count, and an explicit signal with
\* one mention from one source has exactly 0.63.
C2_ConfidenceBounds ==
    \A c \in Calls :
        pc[c] = "done" =>
            \A i \in 1 .. Len(profile[c].signals) :
                LET signal == profile[c].signals[i]
                    entry  == entry_of(registry[c], signal)
                IN /\ signal.confidence > 0
                   /\ signal.confidence <= 98
                   /\ (/\ signal.signal_type = "explicit"
                       /\ entry.mentions = 1
                       /\ Cardinality(entry.sources) = 1) => signal.confidence = 63

\* A returned signal whose bonuses pass the ceiling: it sits at 0.98.
C2_CeilingReached ==
    /\ pc[1] = "done"
    /\ \E i \in 1 .. Len(profile[1].signals) :
           LET signal == profile[1].signals[i]
               entry  == entry_of(registry[1], signal)
           IN /\ signal.confidence = 98
              /\ entry.mentions >= 18
              /\ base_confidence(entry.type) + mention_bonus(entry.mentions)
                 + source_bonus(Cardinality(entry.sources)) > 980000

\* C3: evidence cap.  Every returned signal carries at most 3 evidence entries, and
\* they are the first occurrences of its skill in registration order.
C3_EvidenceCap ==
    \A c \in Calls :
        pc[c] = "done" =>
            \A i \in 1 .. Len(profile[c].signals) :
                LET signal == profile[c].signals[i]
                    occ    == occurrences(c, signal)
                IN /\ Len(signal.evidence) <= 3
                   /\ Len(signal.evidence) = Min(3, Len(occ))
                   /\ \A k \in 1 .. Len(signal.evidence) : signal.evidence[k] = occ[k]

\* A returned signal whose skill occurred more than 3 times, in two documents.
C3_MoreThanThreeOccurrences ==
    /\ pc[1] = "done"
    /\ \E i \in 1 .. Len(profile[1].signals) :
           LET signal == profile[1].signals[i]
           IN /\ Len(occurrences(1, signal)) > 3
              /\ Len(signal.sources) = 2
              /\ Len(signal.evidence) = 3

\* C4: one signal per normalized name.  At every step the registry holds exactly one
\* entry per normalized name registered so far; the signals of a returned profile
\* have pairwise distinct normalized names, one per entry, and as_skill_set has as
\* many keys as there are signals.
C4_OneSignalPerName ==
    \A c \in Calls :
        LET reg == registry[c]
            signals == profile[c].signals
        IN /\ \A i, j \in 1 .. Len(reg) : reg[i].key = reg[j].key => i = j
           /\ {reg[i].key : i \in 1 .. Len(reg)}
              = {normalize_skill(ev.name) : ev \in Range(registered(c))}
           /\ pc[c] = "done" =>
                 /\ Len(signals) = Len(reg)
                 /\ \A i, j \in 1 .. Len(signals) :
                        normalize_skill(signals[i].name) = normalize_skill(signals[j].name)
                            => i = j
                 /\ Cardinality(DOMAIN as_skill_set(signals)) = Len(signals)

\* A returned profile of several signals, one of them merged from mentions in
\* different casing ("PYTHON", "python").
C4_RepeatedSkillMerged ==
    /\ pc[1] = "done"
    /\ Len(profile[1].signals) >= 2
    /\ \E i \in 1 .. Len(registry[1]) :
           /\ registry[1][i].mentions >= 2
           /\ \E e1, e2 \in Range(registry[1][i].snippets) : e1.snippet /= e2.snippet

\* C5: signal ordering.  The signals of a returned profile are sorted by
\* confidence descending; two adjacent signals of equal confidence are ordered by
\* name descending.
C5_SignalOrdering ==
    \A c \in Calls :
        pc[c] = "done" =>
            \A i \in 1 .. Len(profile[c].signals) - 1 :
                LET a == profile[c].signals[i]
                    b == profile[c].signals[i + 1]
                IN \/ a.confidence > b.confidence
                   \/ a.confidence = b.confidence /\ str_lt(b.name, a.name)

\* A returned profile with two adjacent signals of equal confidence.
C5_TieBrokenByName ==
    /\ pc[1] = "done"
    /\ \E i \in 1 .. Len(profile[1].signals) - 1 :
           profile[1].signals[i].confidence = profile[1].signals[i + 1].confidence

\* The normalized names of a sequence of signals.
signal_keys(signals) == {normalize_skill(signals[i].name) : i \in 1 .. Len(signals)}

\* A sequence of str is strictly ascending: sorted and free of duplicates.
strictly_ascending(names) ==
    \A i \in 1 .. Len(names) - 1 : str_lt(names[i], names[i + 1])

\* The signals of the job posting of the last match, and how many of their keys
\* the candidate has.
job_signals == match_result.raw_job_profile.signals
job_keys == signal_keys(job_signals)
common_keys == job_keys \cap signal_keys(profile[1].signals)

\* The match returned a JobMatchResult.
match_returned == match_result.called /\ ~match_result.is_none

\* C6: match partition.  For a job text that yields at least one skill, matched is
\* the display names of exactly the job skills whose key the candidate has, gaps
\* those of exactly the job skills whose key it has not; the two are disjoint,
\* duplicate-free and sorted, and together cover every job skill.
C6_MatchPartition ==
    (match_returned /\ job_signals /= <<>>) =>
        LET matched == match_result.matched
            gaps    == match_result.gaps
        IN /\ Range(matched) = {s.name : s \in {t \in Range(job_signals) :
                                    normalize_skill(t.name) \in common_keys}}
           /\ Range(gaps) = {s.name : s \in {t \in Range(job_signals) :
                                    normalize_skill(t.name) \notin common_keys}}
           /\ Range(matched) \cap Range(gaps) = {}
           /\ strictly_ascending(matched)
           /\ strictly_ascending(gaps)
           /\ Range(matched) \cup Range(gaps) = {s.name : s \in Range(job_signals)}
           /\ Len(matched) + Len(gaps) = Len(job_signals)

\* A match with skills on both sides: some the candidate has, some it lacks.
C6_MatchedAndGaps ==
    /\ match_returned
    /\ Len(match_result.matched) >= 2
    /\ Len(match_result.gaps) >= 1

\* C7 as stated: the coverage is the ratio |matched| / |job skillset| itself, and
\* lies in [0, 1].
C7_CoverageIsExactRatio ==
    (match_returned /\ job_signals /= <<>>) =>
        /\ match_result.coverage * Cardinality(job_keys) = 100 * Cardinality(common_keys)
        /\ match_result.coverage \in 0 .. 100

\* C7, amended: the coverage is the ratio |matched| / |job skillset| rounded to two
\* decimals (0.75 when 3 of 4 job keys are the candidate's, 0 for a job without
\* skills), and lies in [0, 1].
C7_CoverageIsRoundedRatio ==
    match_returned =>
        /\ match_result.coverage \in 0 .. 100
        /\ job_signals = <<>> => match_result.coverage = 0
        /\ job_signals /= <<>> =>
              LET n == Cardinality(job_keys)
                  k == Cardinality(common_keys)
                  diff == 100 * k - match_result.coverage * n
              IN /\ Len(match_result.matched) = k
                 /\ 2 * diff <= n
                 /\ 2 * diff >= -n
        /\ (Cardinality(job_keys) = 4 /\ Cardinality(common_keys) = 3)
              => match_result.coverage = 75

\* A match whose ratio is no whole number of hundredths: 2 of 3 job skills.
C7_TwoOfThree ==
    /\ match_returned
    /\ Cardinality(job_keys) = 3
    /\ Cardinality(common_keys) = 2
    /\ match_result.coverage = 67

\* No skill is detected in a text: a build of it alone registers no event.
no_skill_detected(text) ==
    batch_events(filter_sources(<<[name |-> <<>>, text |-> text, visibility |-> "public"]>>))
        = <<>>

\* C8 as stated: for a job text in which no skill is detected, empty and
\* whitespace-only texts included, the call returns a result with coverage 0 and
\* empty matched and gaps.
C8_NoSkillGivesZeroResult ==
    (match_result.called /\ no_skill_detected(job_text)) =>
        /\ ~match_result.is_none
        /\ match_result.coverage = 0
        /\ match_result.matched = <<>>
        /\ match_result.gaps = <<>>

\* C8, amended: for an empty or whitespace-only job text the call returns None;
\* for any other text in which no skill is detected it returns a result with
\* coverage 0 and empty matched and gaps.  It raises in neither case.
C8_BlankGivesNoneElseZeroResult ==
    (match_result.called /\ no_skill_detected(job_text)) =>
        IF \A i \in 1 .. Len(job_text) : isspace(job_text[i])
        THEN match_result = [called |-> TRUE, is_none |-> TRUE]
        ELSE /\ ~match_result.is_none
             /\ match_result.coverage = 0
             /\ match_result.matched = <<>>
             /\ match_result.gaps = <<>>

\* A match on a whitespace-only job text has returned.
C8_WhitespaceJobText ==
    /\ match_result.called
    /\ job_text /= <<>>
    /\ \A i \in 1 .. Len(job_text) : isspace(job_text[i])

\* C9: framework coverage.  For every category the coverage is the number of the
\* profile's normalized skill names in the category's target list over the number
\* of targets (to two decimals), whatever category the signals themselves carry.
C9_FrameworkCoverage ==
    \A c \in Calls :
        pc[c] = "done" =>
            \A k \in 1 .. Len(FORMAL_SKILL_FRAMEWORK) :
                LET targets == {normalize_skill(FORMAL_SKILL_FRAMEWORK[k].skills[i]) :
                                   i \in 1 .. Len(FORMAL_SKILL_FRAMEWORK[k].skills)}
                    hits    == signal_keys(profile[c].signals) \cap targets
                    entry   == profile[c].stats.framework_alignment[
                                   FORMAL_SKILL_FRAMEWORK[k].category]
                    diff    == 100 * Cardinality(hits) - entry.coverage * Cardinality(targets)
                IN IF targets = {} THEN entry.coverage = 0
                   ELSE /\ 2 * diff <= Cardinality(targets)
                        /\ 2 * diff >= -Cardinality(targets)

\* The part of a line after its first colon holds a skill: a character that is
\* neither whitespace nor a comma.
has_skill_after_colon(line) ==
    \E k \in 1 .. Len(line) :
        /\ line[k] = 58
        /\ \A j \in 1 .. k - 1 : line[j] /= 58
        /\ \E p \in k + 1 .. Len(line) : ~isspace(line[p]) /\ line[p] /= 44

\* A string without whitespace and commas.
RECURSIVE squeezed(_)
squeezed(s) ==
    IF s = <<>> THEN <<>>
    ELSE IF isspace(s[1]) \/ s[1] = 44 THEN squeezed(Tail(s))
    ELSE <<s[1]>> \o squeezed(Tail(s))

RECURSIVE concatenated(_)
concatenated(strs) == IF strs = <<>> THEN <<>> ELSE strs[1] \o concatenated(Tail(strs))

\* C10: team parsing.  The members are, in input order, one per line that holds a
\* colon and a skill after its first colon; other lines are skipped; every
\* returned skill is trimmed and non-empty.
C10_TeamParsing ==
    LET kept == SelectSeq(team_lines, has_skill_after_colon)
    IN /\ Len(team_profiles) = Len(kept)
       /\ \A i \in 1 .. Len(team_profiles) :
              LET member == team_profiles[i]
                  line   == kept[i]
                  colon  == CHOOSE k \in 1 .. Len(line) :
                                line[k] = 58 /\ \A j \in 1 .. k - 1 : line[j] /= 58
              IN /\ squeezed(member.name) = squeezed(SubSeq(line, 1, colon - 1))
                 /\ member.skills /= <<>>
                 /\ \A j \in 1 .. Len(member.skills) :
                        LET skill == member.skills[j]
                        IN /\ skill /= <<>>
                           /\ ~isspace(skill[1])
                           /\ ~isspace(skill[Len(skill)])
                           /\ \A p \in 1 .. Len(skill) : skill[p] /= 44
                 /\ squeezed(concatenated(member.skills))
                    = squeezed(SubSeq(line, colon + 1, Len(line)))

\* The inventory "Asha: cloud, security / BadLine / Kofi: python" is parsed: two
\* members, the line without a colon dropped.
C10_MalformedLineDropped ==
    /\ Len(team_lines) = 3
    /\ Len(team_profiles) = 2
    /\ \E i \in 1 .. 3 : \A k \in 1 .. Len(team_lines[i]) : team_lines[i][k] /= 58
    /\ Len(team_profiles[1].skills) = 2
    /\ Len(team_profiles[2].skills) = 1

\* The normalized skills of every member of the team last parsed.
team_keys ==
    UNION {{normalize_skill(team_profiles[i].skills[j]) :
               j \in 1 .. Len(team_profiles[i].skills)} : i \in 1 .. Len(team_profiles)}

\* The signals of the compared profile whose key no member of the team has.
signals_absent_from_team ==
    {i \in 1 .. Len(profile[1].signals) :
        normalize_skill(profile[1].signals[i].name) \notin team_keys}

\* C11: team comparison.  The report of compare_against_team gives the member
\* count as team_size and the number of distinct normalized team skills as
\* team_skill_coverage; unique_strengths are the display names of exactly the
\* candidate skills whose key no member has, team_gaps exactly the team keys the
\* candidate lacks, each listed once; no key contributes to both lists.
C11_TeamComparison ==
    team_report.compared =>
        /\ team_report.team_size = Len(team_profiles)
        /\ team_report.team_skill_coverage = Cardinality(team_keys)
        /\ Range(team_report.unique_strengths)
           = {profile[1].signals[i].name : i \in signals_absent_from_team}
        /\ Len(team_report.unique_strengths) = Cardinality(signals_absent_from_team)
        /\ Range(team_report.team_gaps) = team_keys \ signal_keys(profile[1].signals)
        /\ Len(team_report.team_gaps)
           = Cardinality(team_keys \ signal_keys(profile[1].signals))
        /\ signal_keys([i \in 1 .. Len(team_report.unique_strengths) |->
                           [name |-> team_report.unique_strengths[i]]])
           \cap Range(team_report.team_gaps) = {}

\* A profile is compared against a team of two members who spell a shared skill
\* differently; the candidate has a skill of the team, one the team lacks, and
\* lacks one the team has.
C11_SharedSkillCollapsed ==
    /\ team_report.compared
    /\ Len(team_profiles) = 2
    /\ \E a \in Range(team_profiles[1].skills), b \in Range(team_profiles[2].skills) :
           a /= b /\ normalize_skill(a) = normalize_skill(b)
    /\ team_keys \cap signal_keys(profile[1].signals) /= {}
    /\ team_report.unique_strengths /= <<>>
    /\ team_report.team_gaps /= <<>>

\* A text that is empty or holds whitespace only.
blank_text(text) == \A k \in 1 .. Len(text) : isspace(text[k])

\* A batch without its empty and whitespace-only documents.
without_blank(b) == SelectSeq(b, LAMBDA doc : ~blank_text(doc.text))

\* C12: blank documents are no-ops.  The profile a call returns for a batch is one
\* build_skill_profile returns for the same batch with every blank document
\* removed (same signals, same statistics, source_count included); for an empty
\* or all-blank batch it has no signals, explicit_count = implicit_count = 0 and
\* avg_confidence = 0.
C12_BlankDocumentsAreNoOps ==
    pc[1] = "done" =>
        /\ profile[1] \in build_skill_profile(without_blank(batch[1]))
        /\ profile[1].stats.source_count = Len(without_blank(batch[1]))
        /\ without_blank(batch[1]) = <<>> =>
               /\ profile[1].signals = <<>>
               /\ profile[1].stats.explicit_count = 0
               /\ profile[1].stats.implicit_count = 0
               /\ profile[1].stats.avg_confidence = 0
               /\ profile[1].stats.source_count = 0

\* A call returned a profile with signals for a batch of a blank document and a
\* document with skills.
C12_BlankBesideSkills ==
    /\ pc[1] = "done"
    /\ Len(batch[1]) = 2
    /\ \E i \in 1 .. 2 : blank_text(batch[1][i].text)
    /\ profile[1].signals /= <<>>

\* C13: call-local state.  With the register steps of two calls interleaved in any
\* way, the registry of each call holds its own events only, and the profile a
\* call returns is one build_skill_profile returns for its batch when run alone.
C13_CallLocalState ==
    \A c \in Calls :
        /\ pc[c] = "registering" => registry[c] = register_all(<<>>, registered(c))
        /\ pc[c] = "done" => profile[c] \in build_skill_profile(batch[c])

\* Both calls are in the middle of their loops, each with registrations made and
\* registrations to come, and both have registered the same skill.
C13_BothCallsRegistering ==
    /\ \A c \in Calls : pc[c] = "registering" /\ registry[c] /= <<>> /\ queue[c] /= <<>>
    /\ \E i \in 1 .. Len(registry[1]), j \in 1 .. Len(registry[2]) :
           registry[1][i].key = registry[2][j].key

\* Every entry of call c's registry is still there after the step, under the same
\* key and with the kind, category and display name it had.
entries_keep_identity(c) ==
    \A i \in 1 .. Len(registry[c]) :
        /\ i <= Len(registry'[c])
        /\ registry'[c][i].key = registry[c][i].key
        /\ registry'[c][i].type = registry[c][i].type
        /\ registry'[c][i].category = registry[c][i].category
        /\ registry'[c][i].name = registry[c][i].name

\* Among the events of one document, no explicit event follows an implicit one.
explicit_before_implicit(evs) ==
    \A i, j \in 1 .. Len(evs) :
        (i < j /\ evs[i].source = evs[j].source /\ evs[i].signal_type = "implicit")
            => evs[j].signal_type = "implicit"

\* C14: first-seen stickiness.  No step changes the kind, category or display
\* name of an entry the registry holds, whatever the registered event carries;
\* and the events of one document are registered explicit ones first.
C14_FirstSeenStickiness ==
    [][/\ \A c \in Calls : entries_keep_identity(c)
       /\ \A c \in Calls : explicit_before_implicit(events'[c])]_vars

\* An entry first registered from an implicit pattern has since had an explicit
\* event registered for its key, and kept its kind.
C14_LaterEventOfOtherKind ==
    \E i \in 1 .. Len(registry[1]), k \in 1 .. Len(registered(1)) :
        /\ normalize_skill(registered(1)[k].name) = registry[1][i].key
        /\ registry[1][i].type = "implicit"
        /\ registered(1)[k].signal_type = "explicit"

\* C15: registry snippet cap.  In every state reached during aggregation every
\* registry entry holds at most 3 snippets.
C15_RegistrySnippetCap ==
    \A c \in Calls : \A i \in 1 .. Len(registry[c]) : Len(registry[c][i].snippets) <= 3

\* The mentions call c's registry holds for a key: 0 when it has no entry.
mentions_of(reg, key) ==
    IF registry_index(reg, key) = 0 THEN 0 ELSE reg[registry_index(reg, key)].mentions

\* The sources call c's registry holds for a key.
sources_of(reg, key) ==
    IF registry_index(reg, key) = 0 THEN {} ELSE reg[registry_index(reg, key)].sources

\* The keys of a registry.
registry_keys(reg) == {reg[i].key : i \in 1 .. Len(reg)}

\* A step of call c's loops counts the registered event once for its key and for
\* no other key, and takes no source away from any entry.
counts_one_event(c) ==
    \A key \in registry_keys(registry[c]) \cup registry_keys(registry'[c]) :
        /\ mentions_of(registry'[c], key)
           = mentions_of(registry[c], key)
             + (IF /\ Len(queue'[c]) < Len(queue[c])
                   /\ normalize_skill(Head(queue[c]).name) = key
                THEN 1 ELSE 0)
        /\ sources_of(registry[c], key) \subseteq sources_of(registry'[c], key)

\* C16: monotonic aggregation.  In every state every entry has at least one
\* source and at least as many mentions as sources; every register operation adds
\* exactly 1 to the mentions of the event's key and leaves the other counts as
\* they are, and no step takes a source away from an entry.
C16_MonotonicAggregation ==
    /\ [](\A c \in Calls : \A i \in 1 .. Len(registry[c]) :
              /\ 1 <= Cardinality(registry[c][i].sources)
              /\ Cardinality(registry[c][i].sources) <= registry[c][i].mentions)
    /\ [][\A c \in Calls : counts_one_event(c)]_vars

\* An entry has been registered from two documents, more than once from one of
\* them.
C16_TwoSourcesThreeMentions ==
    \E i \in 1 .. Len(registry[1]) :
        /\ Cardinality(registry[1][i].sources) = 2
        /\ registry[1][i].mentions > 2

====
